---- MODULE Spec2Model ----
(***************************************************************************)
(* DocumentAwareAnalyzer (src/document_analyzer.py): the analyzer's        *)
(* document, sections and TF-IDF index, and the operations that set the    *)
(* document, score a comment against it, classify a comment's intent,      *)
(* adjust a sentiment and analyse a batch.                                 *)
(*                                                                         *)
(* Text.  A comment is a sequence of characters (one-character strings),   *)
(* so that lower(), `keyword in comment` and re.findall are computed on    *)
(* the characters.  A document is a sequence of blocks: what re.finditer   *)
(* and nltk's sent_tokenize find in it.  A block is whitespace, a run of   *)
(* n sentences, or a clause: a heading that some of the five pattern       *)
(* families match, followed by its body.  Every block carries the number   *)
(* of characters of its heading and of its body, so len(content) > 50 is   *)
(* computed.                                                               *)
(*                                                                         *)
(* Numbers.  Scores are exact fixed-point numbers, Unit to the 1.0.        *)
(***************************************************************************)
EXTENDS Integers, Sequences, FiniteSets, TLC

VARIABLES
  tfidf_config,        \* which TfidfVectorizer _load_models built
  tfidf_vectorizer,    \* self.tfidf_vectorizer: its fitted state
  main_document,       \* self.main_document
  document_sections,   \* self.document_sections
  document_embeddings, \* self.document_embeddings
  ret,                 \* the last completed call: what it was given and what it did
  set_pc,              \* the thread in set_main_document: where it is
  set_doc,             \*   and the document it was given
  rel_pc,              \* the thread in analyze_comment_relevance: where it is
  rel_loc              \*   and its local variables

vars == << tfidf_config, tfidf_vectorizer, main_document, document_sections,
           document_embeddings, ret, set_pc, set_doc, rel_pc, rel_loc >>

analyzer == << tfidf_vectorizer, main_document, document_sections, document_embeddings >>

(* Bounds of the model. *)
MaxBlocks == 3
MaxDocBlocks == 2
MaxBatch == 2
MaxWords == 2

----------------------------------------------------------------------------
(* Python values. *)

(* None, for a field that holds a sequence or a record otherwise. *)
None == [some |-> FALSE, v |-> << >>]
Some(x) == [some |-> TRUE, v |-> x]

Range(s) == {s[i] : i \in 1..Len(s)}

RECURSIVE SumOver(_, _)
(* sum(f[i] for i in 1..Len(f)) *)
SumOver(f, n) == IF n = 0 THEN 0 ELSE f[n] + SumOver(f, n - 1)

RECURSIVE Flatten(_)
(* The concatenation of a sequence of sequences. *)
Flatten(ss) == IF ss = << >> THEN << >> ELSE Head(ss) \o Flatten(Tail(ss))

RECURSIVE SeqsUpTo(_, _)
(* The sequences of at most n elements of S. *)
SeqsUpTo(S, n) ==
  IF n = 0 THEN {<< >>}
  ELSE LET shorter == SeqsUpTo(S, n - 1)
       IN shorter \cup {Append(s, x) : s \in {t \in shorter : Len(t) = n - 1}, x \in S}

----------------------------------------------------------------------------
(* Characters and words. *)

Upper == <<"A","B","C","D","E","F","G","H","I","J","K","L","M",
           "N","O","P","Q","R","S","T","U","V","W","X","Y","Z">>
Lowercase == <<"a","b","c","d","e","f","g","h","i","j","k","l","m",
           "n","o","p","q","r","s","t","u","v","w","x","y","z">>
Digits == {"0","1","2","3","4","5","6","7","8","9"}
Whitespace == {" "}

(* str.lower(), one character. *)
LowerChar(c) ==
  IF \E i \in 1..Len(Upper) : Upper[i] = c
  THEN Lowercase[CHOOSE i \in 1..Len(Upper) : Upper[i] = c]
  ELSE c

(* str.lower() *)
Lower(s) == [i \in 1..Len(s) |-> LowerChar(s[i])]

(* `kw in s` on strings: kw occurs in s as a substring. *)
Contains(s, kw) ==
  \E i \in 1..(Len(s) - Len(kw) + 1) : SubSeq(s, i, i + Len(kw) - 1) = kw

(* ' '.join(words) *)
RECURSIVE JoinWords(_)
JoinWords(ws) ==
  IF ws = << >> THEN << >>
  ELSE IF Len(ws) = 1 THEN ws[1]
  ELSE ws[1] \o <<" ">> \o JoinWords(Tail(ws))

W_section == <<"S","e","c","t","i","o","n">>
W_5 == <<"5">>
W_penalty == <<"p","e","n","a","l","t","y">>
W_director == <<"d","i","r","e","c","t","o","r">>
W_the == <<"t","h","e">>
W_excellent == <<"e","x","c","e","l","l","e","n","t">>
W_unclear == <<"u","n","c","l","e","a","r">>
W_question_mark == <<"?">>

(* A few of the English stop words of stop_words='english'. *)
StopWords == {W_the}

(* TfidfVectorizer's analyzer on a list of words: lower-cased tokens of two or
   more word characters (token_pattern \b\w\w+\b), stop words removed. *)
IsWordChar(c) ==
  \/ c \in Digits
  \/ \E i \in 1..Len(Upper) : c = Upper[i] \/ c = Lowercase[i]
Tokens(words) ==
  {Lower(w) : w \in {x \in Range(words) : Len(x) >= 2 /\ \A i \in 1..Len(x) : IsWordChar(x[i])}}
    \ StopWords

RECURSIVE SplitWords(_)
(* str.split(): the maximal runs of non-whitespace characters. *)
SplitWords(s) ==
  IF s = << >> THEN << >>
  ELSE IF s[1] \in Whitespace THEN SplitWords(Tail(s))
  ELSE LET stops == {i \in 1..Len(s) : s[i] \in Whitespace}
           end == IF stops = {} THEN Len(s) + 1
                  ELSE CHOOSE i \in stops : \A j \in stops : i <= j
       IN <<SubSeq(s, 1, end - 1)>> \o SplitWords(SubSeq(s, end, Len(s)))

----------------------------------------------------------------------------
(* Documents. *)

(* A block of document text.
     fams    the pattern families (1..5) whose regular expression matches at
             the block's heading: {} for whitespace and for plain sentences
     id      group(1) of such a match
     hchars  characters of the heading, up to where group(2) starts
     chars   characters of the body
     words   len(body.split())
     n       sentences sent_tokenize finds in the block
     term    the word the body is written with (<< >>: none)               *)
Blank == [fams |-> {}, id |-> << >>, hchars |-> 0, chars |-> 1, words |-> 0, n |-> 0,
          term |-> << >>]
(* "Clause 1 <a body of 60 characters about a penalty>": family 1 alone. *)
ClauseLong == [fams |-> {1}, id |-> <<"1">>, hchars |-> 9, chars |-> 60, words |-> 8, n |-> 1,
               term |-> W_penalty]
(* "Section 2: <a body of 64 characters about a director>": family 1, and
   family 2 at "2:". *)
SectionLong == [fams |-> {1, 2}, id |-> <<"2">>, hchars |-> 11, chars |-> 64, words |-> 7, n |-> 1,
                term |-> W_director]
(* "Clause 3 <a body of 10 characters>": too short to be kept. *)
ClauseShort == [fams |-> {1}, id |-> <<"3">>, hchars |-> 9, chars |-> 10, words |-> 2, n |-> 1,
                term |-> W_director]
(* One sentence about a penalty; five sentences about a director; one sentence
   of stop words. *)
Sentence == [fams |-> {}, id |-> << >>, hchars |-> 0, chars |-> 23, words |-> 3, n |-> 1,
             term |-> W_penalty]
Sentences5 == [fams |-> {}, id |-> << >>, hchars |-> 0, chars |-> 99, words |-> 10, n |-> 5,
               term |-> W_director]
StopSentence == [fams |-> {}, id |-> << >>, hchars |-> 0, chars |-> 11, words |-> 3, n |-> 1,
                 term |-> W_the]

BlockAlphabet ==
  {Blank, ClauseLong, SectionLong, ClauseShort, Sentence, Sentences5, StopSentence}

(* The document texts: << >> is the empty string. *)
Documents == SeqsUpTo(BlockAlphabet, MaxBlocks)

(* A piece of section content: the characters and the word they are written with. *)
Piece(term, chars, words) == [term |-> term, chars |-> chars, words |-> words]
BodyOf(b) == Piece(b.term, b.chars, b.words)
TextOf(b) == Piece(b.term, b.hchars + b.chars, b.words)
IsSpace(p) == p.term = << >>

RECURSIVE Strip(_)
(* str.strip() *)
Strip(ps) ==
  IF ps = << >> THEN << >>
  ELSE IF IsSpace(ps[1]) THEN Strip(Tail(ps))
  ELSE IF IsSpace(ps[Len(ps)]) THEN Strip(SubSeq(ps, 1, Len(ps) - 1))
  ELSE ps

(* len(content) *)
CharLen(ps) == SumOver([i \in 1..Len(ps) |-> ps[i].chars], Len(ps))
(* len(content.split()) *)
WordCount(ps) == SumOver([i \in 1..Len(ps) |-> ps[i].words], Len(ps))

(* len(document_text) *)
DocLen(doc) == SumOver([i \in 1..Len(doc) |-> doc[i].hchars + doc[i].chars], Len(doc))

----------------------------------------------------------------------------
(* _extract_document_sections *)

section_patterns == <<1, 2, 3, 4, 5>>

(* The length a section's content must exceed. *)
MinContent == 50

(* re.finditer(pattern, document_text): where the matches of a family start,
   in document order. *)
RECURSIVE Finditer(_, _, _)
Finditer(f, doc, from) ==
  IF from > Len(doc) THEN << >>
  ELSE IF f \in doc[from].fams THEN <<from>> \o Finditer(f, doc, from + 1)
  ELSE Finditer(f, doc, from + 1)

(* Where the lookahead of family f stops the match that starts at block p: the
   next heading of the same family, or the end of the text. *)
MatchEnd(f, doc, p) ==
  LET next == {q \in (p + 1)..Len(doc) : f \in doc[q].fams}
  IN IF next = {} THEN Len(doc) + 1 ELSE CHOOSE q \in next : \A r \in next : q <= r

(* match.group(2).strip() *)
Group2(f, doc, p) ==
  Strip(<<BodyOf(doc[p])>> \o [i \in 1..(MatchEnd(f, doc, p) - p - 1) |-> TextOf(doc[p + i])])

(* Substantial that keeps every candidate with content. *)
Substantial_NonEmpty(content) == CharLen(content) > 0

(* The substantial-section test of the pattern loop. *)
Substantial(content) == CharLen(content) > MinContent

DecimalDigits == <<"0","1","2","3","4","5","6","7","8","9">>

RECURSIVE Str(_)
(* str(k), k >= 0 *)
Str(k) == IF k < 10 THEN <<DecimalDigits[k + 1]>>
          ELSE Str(k \div 10) \o <<DecimalDigits[(k % 10) + 1]>>

(* The literal parts of the f-strings "Section {id}", "Part_{n}", "Part {n}". *)
S_Section == <<"S","e","c","t","i","o","n"," ">>
S_Part_ == <<"P","a","r","t","_">>
S_Part == <<"P","a","r","t"," ">>

MakeSection(id, title, content) ==
  [id |-> id, title |-> title, content |-> content, word_count |-> WordCount(content)]

(* The sections one pattern family appends. *)
RECURSIVE FamilySections(_, _, _)
FamilySections(f, doc, ms) ==
  IF ms = << >> THEN << >>
  ELSE LET p == Head(ms)
           content == Group2(f, doc, p)
           rest == FamilySections(f, doc, Tail(ms))
       IN IF Substantial(content)
          THEN <<MakeSection(doc[p].id, S_Section \o doc[p].id, content)>> \o rest
          ELSE rest

(* The pattern loop: every family scans the whole text, in list order. *)
PatternSections(doc) ==
  Flatten([k \in 1..Len(section_patterns) |->
             FamilySections(section_patterns[k], doc, Finditer(section_patterns[k], doc, 1))])

(* nltk sent_tokenize: the sentences of every block, in order; whitespace holds
   none, so empty and whitespace-only text give the empty list. *)
sent_tokenize(doc) ==
  Flatten([i \in 1..Len(doc) |->
             [j \in 1..doc[i].n |-> Piece(doc[i].term, (doc[i].hchars + doc[i].chars) \div doc[i].n,
                                          doc[i].words \div doc[i].n)]])

(* ' '.join(chunk) *)
RECURSIVE JoinSentences(_)
JoinSentences(chunk) ==
  IF Len(chunk) <= 1 THEN chunk
  ELSE <<chunk[1], Piece(<< >>, 1, 0)>> \o JoinSentences(Tail(chunk))

Max(a, b) == IF a >= b THEN a ELSE b
Min(a, b) == IF a <= b THEN a ELSE b

(* ChunkSize that is five sentences for every text. *)
ChunkSize_Five(nsent) == 5

(* max(5, len(sentences) // 10) *)
ChunkSize(nsent) == Max(5, nsent \div 10)

(* The fallback loop: for i in range(0, len(sentences), chunk_size). *)
FallbackSections(doc) ==
  LET sentences == sent_tokenize(doc)
      chunk_size == ChunkSize(Len(sentences))
      starts == {i \in 0..(Len(sentences) - 1) : i % chunk_size = 0}
      nchunks == Cardinality(starts)
      chunk(k) == SubSeq(sentences, (k - 1) * chunk_size + 1,
                         Min(k * chunk_size, Len(sentences)))
  IN [k \in 1..nchunks |->
        MakeSection(S_Part_ \o Str(k), S_Part \o Str(k), JoinSentences(chunk(k)))]

_extract_document_sections(doc) ==
  LET sections == PatternSections(doc)
  IN IF sections = << >> THEN FallbackSections(doc) ELSE sections

(* analyze_comment_relevance: the legal/legislation keyword list, in list order. *)
legal_keywords ==
  << <<"s","e","c","t","i","o","n">>,
     <<"c","l","a","u","s","e">>,
     <<"a","r","t","i","c","l","e">>,
     <<"a","m","e","n","d","m","e","n","t">>,
     <<"a","c","t">>,
     <<"l","a","w">>,
     <<"r","e","g","u","l","a","t","i","o","n">>,
     <<"p","r","o","v","i","s","i","o","n">>,
     <<"r","e","q","u","i","r","e","m","e","n","t">>,
     <<"c","o","m","p","l","i","a","n","c","e">>,
     <<"p","e","n","a","l","t","y">>,
     <<"f","i","n","e">>,
     <<"d","i","r","e","c","t","o","r">>,
     <<"c","o","m","p","a","n","y">>,
     <<"b","o","a","r","d">>,
     <<"s","h","a","r","e","h","o","l","d","e","r">>,
     <<"c","s","r">>,
     <<"r","e","m","u","n","e","r","a","t","i","o","n">>,
     <<"d","i","s","q","u","a","l","i","f","i","c","a","t","i","o","n">> >>

----------------------------------------------------------------------------
(* Inputs. *)

C_section_5 == JoinWords(<<W_section, W_5>>)

(* The documents of the analyzer's life cycle. *)
LifecycleAlphabet == {ClauseLong, SectionLong, Sentence, StopSentence}
SmallDocuments == SeqsUpTo(LifecycleAlphabet, MaxDocBlocks)
Probes == {<< >>, C_section_5, W_penalty, W_director}

SessionDocuments ==
  {<< >>, <<Blank>>, <<Sentence>>, <<ClauseLong, SectionLong>>, <<Sentence, Sentences5>>}
SessionComments == {<< >>, C_section_5, W_excellent, JoinWords(<<W_unclear, W_question_mark>>)}
BatchComments == {C_section_5, W_excellent}
(* Documents each of which, alone, builds an index with either vectorizer. *)
ThreadDocuments == {<<ClauseLong, SectionLong>>, <<SectionLong, ClauseLong>>,
                    <<ClauseLong, Sentence, SectionLong>>}
ThreadComments == {C_section_5, W_penalty}

(* Comments for the relevance score: 'I am worried about the penalty under
   Section 5'; 'law act fine csr board' with five of the legal keywords, the
   same with 'clause article Section penalty director company' for eleven; and
   in RelevanceComments comments with two, three and seven keywords, one with
   six section numbers, the nineteen keywords of legal_keywords in a row, and the
   question 'unclear Section 5'. *)
C_worried ==
  <<"I"," ","a","m"," ","w","o","r","r","i","e","d"," ","a","b","o","u","t"," ","t","h",
    "e"," ","p","e","n","a","l","t","y"," ","u","n","d","e","r"," ","S","e","c","t","i",
    "o","n"," ","5">>
C_keywords_5 ==
  <<"l","a","w"," ","a","c","t"," ","f","i","n","e"," ","c","s","r"," ","b","o","a","r",
    "d">>
C_keywords_11 ==
  C_keywords_5 \o <<" ">>
    \o JoinWords(<< <<"c","l","a","u","s","e">>, <<"a","r","t","i","c","l","e">>,
                    W_section, W_penalty, W_director,
                    <<"c","o","m","p","a","n","y">> >>)
RelevanceComments ==
  {<< >>, W_excellent, W_penalty, W_director,
   JoinWords(<< W_director, <<"l","a","w">> >>),
   C_worried,
   <<"l","a","w"," ","a","c","t"," ","f","i","n","e">>,
   C_keywords_5,
   C_keywords_5 \o <<" ">>
     \o JoinWords(<< <<"c","l","a","u","s","e">>, <<"a","r","t","i","c","l","e">> >>),
   C_keywords_11,
   JoinWords(legal_keywords),
   JoinWords(<<W_unclear, W_section, W_5>>),
   JoinWords(<<W_section, W_5, W_section, W_5, W_section, W_5,
               W_section, W_5, W_section, W_5, W_section, W_5>>)}
RelevanceDocuments ==
  {<< >>, <<Sentence>>, <<SectionLong>>, <<ClauseLong, SectionLong>>,
   <<SectionLong, ClauseLong>>, <<Sentence, Sentences5>>}

AllComments ==
  Probes \cup SessionComments \cup BatchComments \cup ThreadComments \cup RelevanceComments

----------------------------------------------------------------------------
(* The TF-IDF vectorizer (scikit-learn), as far as the analyzer depends on it. *)

(* _load_models: the vectorizer of the try block, and the one of the except
   block (max_df and min_df at their defaults 1.0 and 1). max_df is in percent. *)
TfidfParams(config) ==
  IF config = "primary"
  THEN [max_features |-> 2000, max_df |-> 95, min_df |-> 1]
  ELSE [max_features |-> 1000, max_df |-> 100, min_df |-> 1]

(* The features of a section's content. *)
Features(content) == {content[i].term : i \in 1..Len(content)} \ ({<< >>} \cup StopWords)

Unfitted == [fitted |-> FALSE, vocabulary |-> {}]

(* TfidfVectorizer.fit_transform(section_texts): ValueError for an empty
   vocabulary, for max_df * n_docs < min_df, and when pruning by document
   frequency leaves no term; otherwise the vocabulary and one row per text. *)
FitTransform(config, texts) ==
  LET n == Len(texts)
      params == TfidfParams(config)
      feats == [i \in 1..n |-> Features(texts[i])]
      seen == UNION {feats[i] : i \in 1..n}
      df(t) == Cardinality({i \in 1..n : t \in feats[i]})
      kept == {t \in seen : 100 * df(t) <= params.max_df * n /\ df(t) >= params.min_df}
  IN IF seen = {} \/ params.max_df * n < 100 * params.min_df \/ kept = {}
     THEN [raised |-> TRUE, vocabulary |-> {}, rows |-> << >>]
     ELSE [raised |-> FALSE, vocabulary |-> kept,
           rows |-> [i \in 1..n |-> feats[i] \cap kept]]

(* The analyzer's tokens of every comment text, computed once. *)
TokensOf == [comment \in AllComments |-> Tokens(SplitWords(comment))]

(* TfidfVectorizer.transform([comment]): the comment's tokens that are in the
   fitted vocabulary. *)
Transform(vectorizer, comment) == TokensOf[comment] \cap vectorizer.vocabulary

(* Fixed point: Unit to the 1.0, so that a tenth times a half, times 1.2 or
   0.8, is a whole number of units. *)
Unit == 10 * 100
Tenths(k) == k * 100

(* cosine_similarity of two rows, in units; 0 for a zero row. A value that is a
   whole number of tenths is itself; one strictly between two tenths (an
   irrational one, such as 1/sqrt(2)) is the middle of the two, so that it
   compares with every threshold as the double does. *)
Cosine(a, b) ==
  LET dot == Cardinality(a \cap b)
      na == Cardinality(a)
      nb == Cardinality(b)
      k == CHOOSE j \in 0..10 :
             /\ j * j * na * nb <= 100 * dot * dot
             /\ (j + 1) * (j + 1) * na * nb > 100 * dot * dot
  IN IF dot = 0 THEN 0
     ELSE IF k * k * na * nb = 100 * dot * dot THEN Tenths(k)
     ELSE Tenths(k) + (Tenths(1) \div 2)

----------------------------------------------------------------------------
(* set_main_document *)

Configs == {"primary", "fallback"}

(* The sections of every document text, and the index either vectorizer builds
   of them, computed once. *)
Contents(sections) == [i \in 1..Len(sections) |-> sections[i].content]
SectionsOf == [doc \in Documents |-> _extract_document_sections(doc)]
IndexOf ==
  [config \in Configs |->
     [doc \in Documents |-> FitTransform(config, Contents(SectionsOf[doc]))]]

(* `if self.document_sections:` *)
HasSections(sections) == Len(sections) > 0

(* The whole call, from a state of the analyzer: the fields it leaves, and
   whether it raised.  keeps: whether a fit_transform that raises leaves the
   vectorizer's earlier fit usable (it does or not with the scikit-learn
   release). *)
SetMainDocumentFrom(config, vec, emb, doc, keeps) ==
  LET sections == SectionsOf[doc]
      fit == IndexOf[config][doc]
  IN IF ~HasSections(sections)
     THEN [raised |-> FALSE, vec |-> vec, doc |-> Some(doc), sections |-> Some(sections),
           emb |-> emb]
     ELSE IF fit.raised
     THEN [raised |-> TRUE, vec |-> IF keeps THEN vec ELSE [vec EXCEPT !.fitted = FALSE],
           doc |-> Some(doc), sections |-> Some(sections), emb |-> emb]
     ELSE [raised |-> FALSE, vec |-> [fitted |-> TRUE, vocabulary |-> fit.vocabulary],
           doc |-> Some(doc), sections |-> Some(sections), emb |-> Some(fit.rows)]

(* What a fit_transform that raises may leave of an earlier fit: it is kept or
   lost; there is the one outcome when nothing was fitted or nothing raises. *)
FitOutcomes(config, vec, doc) ==
  IF vec.fitted /\ HasSections(SectionsOf[doc]) /\ IndexOf[config][doc].raised
  THEN BOOLEAN ELSE {TRUE}

set_main_document(doc) ==
  /\ set_pc = "idle" /\ rel_pc = "idle"
  /\ \E keeps \in FitOutcomes(tfidf_config, tfidf_vectorizer, doc) :
       LET after == SetMainDocumentFrom(tfidf_config, tfidf_vectorizer,
                                        document_embeddings, doc, keeps)
       IN /\ main_document' = after.doc
          /\ document_sections' = after.sections
          /\ document_embeddings' = after.emb
          /\ tfidf_vectorizer' = after.vec
          /\ ret' = [op |-> "set_main_document", doc |-> doc, raised |-> after.raised]
  /\ UNCHANGED << tfidf_config, set_pc, set_doc, rel_pc, rel_loc >>

----------------------------------------------------------------------------
(* analyze_comment_relevance *)

(* classify_comment_type: the keywords of category Support, in list order. *)
kw_Support ==
  << <<"s","u","p","p","o","r","t">>,
     <<"a","g","r","e","e">>,
     <<"a","p","p","r","o","v","e">>,
     <<"e","n","d","o","r","s","e">>,
     <<"f","a","v","o","r">>,
     <<"g","o","o","d">>,
     <<"e","x","c","e","l","l","e","n","t">>,
     <<"b","e","n","e","f","i","c","i","a","l">>,
     <<"p","o","s","i","t","i","v","e">>,
     <<"w","e","l","c","o","m","e">>,
     <<"a","p","p","r","e","c","i","a","t","e">>,
     <<"c","o","m","m","e","n","d">>,
     <<"e","x","c","e","l","l","e","n","t">>,
     <<"g","r","e","a","t">>,
     <<"w","o","n","d","e","r","f","u","l">>,
     <<"f","a","n","t","a","s","t","i","c">>,
     <<"o","u","t","s","t","a","n","d","i","n","g">>,
     <<"p","r","a","i","s","e">>,
     <<"l","a","u","d">>,
     <<"c","o","m","m","e","n","d","a","b","l","e">>,
     <<"a","d","m","i","r","a","b","l","e">>,
     <<"v","a","l","u","a","b","l","e">>,
     <<"u","s","e","f","u","l">>,
     <<"h","e","l","p","f","u","l">> >>

(* classify_comment_type: the keywords of category Opposition, in list order. *)
kw_Opposition ==
  << <<"o","p","p","o","s","e">>,
     <<"d","i","s","a","g","r","e","e">>,
     <<"a","g","a","i","n","s","t">>,
     <<"o","b","j","e","c","t">>,
     <<"c","o","n","c","e","r","n">>,
     <<"p","r","o","b","l","e","m">>,
     <<"i","s","s","u","e">>,
     <<"n","e","g","a","t","i","v","e">>,
     <<"h","a","r","m","f","u","l">>,
     <<"d","a","m","a","g","i","n","g">>,
     <<"u","n","a","c","c","e","p","t","a","b","l","e">>,
     <<"r","e","j","e","c","t">>,
     <<"c","r","i","t","i","c","i","z","e">>,
     <<"c","r","i","t","i","c","i","s","m">>,
     <<"f","l","a","w","e","d">>,
     <<"i","n","a","d","e","q","u","a","t","e">>,
     <<"i","n","s","u","f","f","i","c","i","e","n","t">>,
     <<"w","o","r","r","i","e","d">>,
     <<"w","o","r","r","i","s","o","m","e">>,
     <<"p","r","o","b","l","e","m","a","t","i","c">>,
     <<"t","r","o","u","b","l","i","n","g">>,
     <<"s","e","r","i","o","u","s"," ","c","o","n","c","e","r","n">>,
     <<"m","a","j","o","r"," ","i","s","s","u","e">> >>

(* classify_comment_type: the keywords of category Suggestion, in list order. *)
kw_Suggestion ==
  << <<"s","u","g","g","e","s","t">>,
     <<"r","e","c","o","m","m","e","n","d">>,
     <<"p","r","o","p","o","s","e">>,
     <<"r","e","c","o","m","m","e","n","d","a","t","i","o","n">>,
     <<"i","m","p","r","o","v","e","m","e","n","t">>,
     <<"m","o","d","i","f","y">>,
     <<"c","h","a","n","g","e">>,
     <<"a","m","e","n","d">>,
     <<"r","e","v","i","s","e">>,
     <<"c","l","a","r","i","f","y">>,
     <<"s","h","o","u","l","d">>,
     <<"c","o","u","l","d">>,
     <<"m","i","g","h","t">>,
     <<"c","o","n","s","i","d","e","r">>,
     <<"a","l","t","e","r","n","a","t","i","v","e">>,
     <<"b","e","t","t","e","r">>,
     <<"e","n","h","a","n","c","e">>,
     <<"s","t","r","e","n","g","t","h","e","n">>,
     <<"i","m","p","r","o","v","e">>,
     <<"r","e","f","i","n","e">>,
     <<"a","d","j","u","s","t">>,
     <<"u","p","d","a","t","e">> >>

(* classify_comment_type: the keywords of category Question, in list order. *)
kw_Question ==
  << <<"q","u","e","s","t","i","o","n">>,
     <<"a","s","k">>,
     <<"w","o","n","d","e","r">>,
     <<"u","n","c","l","e","a","r">>,
     <<"c","o","n","f","u","s","e","d">>,
     <<"e","x","p","l","a","i","n">>,
     <<"h","o","w">>,
     <<"w","h","a","t">>,
     <<"w","h","y">>,
     <<"w","h","e","n">>,
     <<"w","h","e","r","e">>,
     <<"?">>,
     <<"u","n","c","l","e","a","r">>,
     <<"c","o","n","f","u","s","i","o","n">>,
     <<"u","n","d","e","r","s","t","a","n","d">>,
     <<"c","o","m","p","r","e","h","e","n","s","i","o","n">>,
     <<"c","l","a","r","i","f","i","c","a","t","i","o","n"," ","n","e","e","d","e","d">>,
     <<"p","l","e","a","s","e"," ","e","x","p","l","a","i","n">> >>

(* classify_comment_type: the keywords of category Clarification, in list order. *)
kw_Clarification ==
  << <<"c","l","a","r","i","f","y">>,
     <<"e","x","p","l","a","i","n">>,
     <<"d","e","f","i","n","e">>,
     <<"s","p","e","c","i","f","y">>,
     <<"d","e","t","a","i","l">>,
     <<"e","l","a","b","o","r","a","t","e">>,
     <<"u","n","d","e","r","s","t","a","n","d">>,
     <<"c","o","m","p","r","e","h","e","n","s","i","o","n">>,
     <<"m","e","a","n","i","n","g">>,
     <<"i","n","t","e","r","p","r","e","t","a","t","i","o","n">>,
     <<"s","c","o","p","e">>,
     <<"e","x","t","e","n","t">>,
     <<"c","o","v","e","r","a","g","e">>,
     <<"a","p","p","l","i","c","a","t","i","o","n">>,
     <<"i","m","p","l","e","m","e","n","t","a","t","i","o","n">> >>

(* classify_comment_type: the keywords of category Implementation, in list order. *)
kw_Implementation ==
  << <<"i","m","p","l","e","m","e","n","t">>,
     <<"e","x","e","c","u","t","e">>,
     <<"a","p","p","l","y">>,
     <<"e","n","f","o","r","c","e">>,
     <<"t","i","m","e","l","i","n","e">>,
     <<"s","c","h","e","d","u","l","e">>,
     <<"p","r","o","c","e","s","s">>,
     <<"p","r","o","c","e","d","u","r","e">>,
     <<"m","e","c","h","a","n","i","s","m">>,
     <<"r","o","l","l","o","u","t">>,
     <<"d","e","p","l","o","y","m","e","n","t">>,
     <<"p","h","a","s","i","n","g">>,
     <<"s","t","a","g","e","s">>,
     <<"s","t","e","p","s">>,
     <<"a","p","p","r","o","a","c","h">>,
     <<"m","e","t","h","o","d","o","l","o","g","y">>,
     <<"f","r","a","m","e","w","o","r","k">> >>

(* NoDocumentLoaded without the test for an empty section list. *)
NoDocumentLoaded_NoneOnly(emb, sections) ==
  \/ ~emb.some
  \/ ~sections.some

(* The early return: no index, no sections, or an empty section list. *)
NoDocumentLoaded(emb, sections) ==
  \/ ~emb.some
  \/ ~sections.some
  \/ Len(sections.v) = 0

UnknownRelevance ==
  [relevance_score |-> 0, most_relevant_section |-> None, relevance_category |-> "Unknown"]

(* re.findall(r'section\s+(\d+)', comment_lower): where the matches start. *)
S_section == <<"s","e","c","t","i","o","n">>
SectionMatches(s) ==
  {i \in 1..Len(s) :
     /\ i + Len(S_section) + 1 <= Len(s)
     /\ SubSeq(s, i, i + Len(S_section) - 1) = S_section
     /\ s[i + Len(S_section)] \in Whitespace
     /\ \E j \in (i + Len(S_section) + 1)..Len(s) :
          /\ s[j] \in Digits
          /\ \A k \in (i + Len(S_section))..(j - 1) : s[k] \in Whitespace}

(* The double that k additions of 0.1 to 0.0, followed for n > 0 by the addition
   of 0.2 * n, give is the double of the decimal (k + 2n)/10, or one a few ulps
   above it, or a few below it. These are the <<k, n>> with k up to the 19
   keywords and n up to 7 for which it is above, and for which it is below:
   three keywords give 0.30000000000000004, eight give 0.7999999999999999.
   In units, a double beside the decimal is one unit from it, on its side. *)
DoubleSum(k, n) ==
  LET above ==
        { <<0, 3>>, <<0, 6>>, <<0, 7>>, <<1, 1>>, <<1, 3>>, <<1, 6>>, <<1, 7>>, <<2, 2>>,
          <<2, 6>>, <<3, 0>>, <<3, 2>>, <<3, 3>>, <<3, 6>>, <<3, 7>>, <<4, 1>>, <<4, 4>>,
          <<4, 7>>, <<5, 6>>, <<5, 7>>, <<6, 3>>, <<6, 6>>, <<7, 6>>, <<12, 6>>, <<13, 2>>,
          <<13, 3>>, <<14, 0>>, <<14, 2>>, <<14, 5>>, <<14, 6>>, <<14, 7>> }
          \cup ({15, 16, 17, 18, 19} \X (0..7)
                  \ { <<15, 5>>, <<15, 6>>, <<16, 3>>, <<17, 5>> })
      below ==
        { <<7, 1>>, <<8, 0>>, <<8, 5>>, <<9, 0>>, <<9, 1>>, <<9, 2>>, <<10, 0>>, <<10, 4>>,
          <<11, 0>>, <<11, 1>>, <<11, 5>> }
  IN Tenths(1) * k + Tenths(2) * n
       + (IF <<k, n>> \in above THEN 1 ELSE IF <<k, n>> \in below THEN -1 ELSE 0)

(* KeywordBoost without the 0.2 for the section numbers. *)
KeywordBoost_KeywordsOnly(comment) ==
  LET comment_lower == Lower(comment)
      hits == {i \in 1..Len(legal_keywords) : Contains(comment_lower, legal_keywords[i])}
  IN DoubleSum(Cardinality(hits), 0)

(* keyword_boost: 0.1 for every entry of legal_keywords found in the lower-cased
   comment, and 0.2 for every match of section\s+(\d+). *)
KeywordBoost(comment) ==
  LET comment_lower == Lower(comment)
      hits == {i \in 1..Len(legal_keywords) : Contains(comment_lower, legal_keywords[i])}
  IN DoubleSum(Cardinality(hits), Cardinality(SectionMatches(comment_lower)))

(* The boost of every comment text, computed once. *)
BoostOf == [comment \in AllComments |-> KeywordBoost(comment)]

(* np.argmax: the first index of the maximum. *)
ArgMax(xs) ==
  CHOOSE i \in 1..Len(xs) :
    /\ \A j \in 1..Len(xs) : xs[j] <= xs[i]
    /\ \A j \in 1..(i - 1) : xs[j] < xs[i]

(* Categorize with thresholds that include their bound. *)
Categorize_Inclusive(max_similarity) ==
  IF max_similarity >= Tenths(7) THEN "Highly Relevant"
  ELSE IF max_similarity >= Tenths(5) THEN "Moderately Relevant"
  ELSE IF max_similarity >= Tenths(3) THEN "Somewhat Relevant"
  ELSE "Low Relevance"

(* The if/elif chain on max_similarity. *)
Categorize(max_similarity) ==
  IF max_similarity > Tenths(7) THEN "Highly Relevant"
  ELSE IF max_similarity > Tenths(5) THEN "Moderately Relevant"
  ELSE IF max_similarity > Tenths(3) THEN "Somewhat Relevant"
  ELSE "Low Relevance"

Raised(error) == [raised |-> TRUE, error |-> error, value |-> None]
Returned(value) == [raised |-> FALSE, error |-> "", value |-> value]

(* ScoreAgainst with the boosted similarities clamped to 1.0. *)
ScoreAgainst_Clamped(vec, sections, emb, comment) ==
  IF ~vec.fitted THEN Raised("NotFittedError")
  ELSE LET comment_embedding == Transform(vec, comment)
           similarities == [i \in 1..Len(emb) |->
                              Min(Unit, Cosine(comment_embedding, emb[i]) + BoostOf[comment])]
           max_similarity_idx == ArgMax(similarities)
       IN IF max_similarity_idx > Len(sections) THEN Raised("IndexError")
          ELSE Returned([relevance_score |-> similarities[max_similarity_idx],
                         most_relevant_section |-> Some(sections[max_similarity_idx]),
                         relevance_category |-> Categorize(similarities[max_similarity_idx]),
                         all_similarities |-> similarities])

(* ScoreAgainst with the boost added to the similarity of the first section
   alone. *)
ScoreAgainst_BoostsFirst(vec, sections, emb, comment) ==
  IF ~vec.fitted THEN Raised("NotFittedError")
  ELSE LET comment_embedding == Transform(vec, comment)
           similarities == [i \in 1..Len(emb) |->
                              Cosine(comment_embedding, emb[i])
                                + (IF i = 1 THEN BoostOf[comment] ELSE 0)]
           max_similarity_idx == ArgMax(similarities)
       IN IF max_similarity_idx > Len(sections) THEN Raised("IndexError")
          ELSE Returned([relevance_score |-> similarities[max_similarity_idx],
                         most_relevant_section |-> Some(sections[max_similarity_idx]),
                         relevance_category |-> Categorize(similarities[max_similarity_idx]),
                         all_similarities |-> similarities])

(* The scoring of a comment against rows `emb` with the vectorizer `vec`, indexing
   `sections` with the best row: the call after its early return.  An unfitted
   vectorizer raises NotFittedError in transform; a best row beyond the section
   list raises IndexError. *)
ScoreAgainst(vec, sections, emb, comment) ==
  IF ~vec.fitted THEN Raised("NotFittedError")
  ELSE LET comment_embedding == Transform(vec, comment)
           keyword_boost == BoostOf[comment]
           similarities == [i \in 1..Len(emb) |->
                              Cosine(comment_embedding, emb[i]) + keyword_boost]
           max_similarity_idx == ArgMax(similarities)
           max_similarity == similarities[max_similarity_idx]
       IN IF max_similarity_idx > Len(sections) THEN Raised("IndexError")
          ELSE Returned([relevance_score |-> max_similarity,
                         most_relevant_section |-> Some(sections[max_similarity_idx]),
                         relevance_category |-> Categorize(max_similarity),
                         all_similarities |-> similarities])

(* RelevanceFrom with the keyword boost applied before the early return. *)
RelevanceFrom_BoostFirst(vec, sections, emb, comment) ==
  IF NoDocumentLoaded(emb, sections)
  THEN Returned([UnknownRelevance EXCEPT !.relevance_score = BoostOf[comment]])
  ELSE ScoreAgainst(vec, sections.v, emb.v, comment)

RelevanceFrom(vec, sections, emb, comment) ==
  IF NoDocumentLoaded(emb, sections) THEN Returned(UnknownRelevance)
  ELSE ScoreAgainst(vec, sections.v, emb.v, comment)

(* The call on the analyzer as it is. *)
Relevance(comment) ==
  RelevanceFrom(tfidf_vectorizer, document_sections, document_embeddings, comment)

----------------------------------------------------------------------------
(* classify_comment_type *)

(* The categories in the order of the classifications dict. *)
Categories == <<"Support", "Opposition", "Suggestion", "Question", "Clarification",
                "Implementation">>

classifications(category) ==
  CASE category = "Support" -> kw_Support
    [] category = "Opposition" -> kw_Opposition
    [] category = "Suggestion" -> kw_Suggestion
    [] category = "Question" -> kw_Question
    [] category = "Clarification" -> kw_Clarification
    [] category = "Implementation" -> kw_Implementation

(* sum(1 for keyword in keywords if keyword in comment_lower): one for every
   entry of the list that occurs. *)
CategoryScore(category, comment_lower) ==
  Cardinality({i \in 1..Len(classifications(category)) :
                 Contains(comment_lower, classifications(category)[i])})

(* PrimaryCategory that takes the last of the keys with the highest score. *)
PrimaryCategory_LastMax(category_scores) ==
  Categories[CHOOSE k \in 1..Len(Categories) :
               /\ \A j \in 1..Len(Categories) :
                    category_scores[Categories[j]] <= category_scores[Categories[k]]
               /\ \A j \in (k + 1)..Len(Categories) :
                    category_scores[Categories[j]] < category_scores[Categories[k]]]

(* max(category_scores, key=category_scores.get): the first key, in the dict's
   order, with the highest score. *)
PrimaryCategory(category_scores) ==
  Categories[ArgMax([k \in 1..Len(Categories) |-> category_scores[Categories[k]]])]

RECURSIVE Gcd(_, _)
Gcd(a, b) == IF b = 0 THEN a ELSE Gcd(b, a % b)

(* The quotient a / b of two numbers, b > 0, as a fraction in lowest terms. *)
Ratio(a, b) == [num |-> a \div Gcd(a, b), den |-> b \div Gcd(a, b)]
Zero == [num |-> 0, den |-> 1]
One == [num |-> 1, den |-> 1]

(* IntentConfidence as the share of the number of categories. *)
IntentConfidence_PerCategory(primary_score, total_keywords) ==
  Ratio(primary_score, Len(Categories))

(* primary_score / total_keywords if total_keywords > 0 else 0 *)
IntentConfidence(primary_score, total_keywords) ==
  IF total_keywords > 0 THEN Ratio(primary_score, total_keywords) ELSE Zero

ClassifyCommentTypeOf(comment) ==
  LET comment_lower == Lower(comment)
      category_scores == [c \in Range(Categories) |-> CategoryScore(c, comment_lower)]
      primary_category == PrimaryCategory(category_scores)
      primary_score == category_scores[primary_category]
      total_keywords == SumOver([k \in 1..Len(Categories) |-> category_scores[Categories[k]]],
                                Len(Categories))
  IN [primary_type |-> primary_category,
      confidence |-> IntentConfidence(primary_score, total_keywords),
      all_scores |-> category_scores,
      is_constructive |-> primary_category \in {"Suggestion", "Question", "Clarification"}]

(* The classification of every comment text, computed once. *)
TypeOf == [comment \in AllComments |-> ClassifyCommentTypeOf(comment)]
classify_comment_type(comment) == TypeOf[comment]

----------------------------------------------------------------------------
(* _adjust_sentiment_for_context *)

(* The product of two fixed-point numbers, and the half of one. *)
Mul(a, b) == (a * b) \div Unit
Half(a) == a \div 2

(* a / b: ZeroDivisionError for b = 0. *)
Divide(a, b) == IF b = 0 THEN Raised("ZeroDivisionError") ELSE Returned(Ratio(a, b))

(* AdjustmentFactor without the test for a zero confidence. *)
AdjustmentFactor_Unguarded(adjusted_confidence, confidence) ==
  Divide(adjusted_confidence, confidence)

(* adjusted_confidence / confidence if confidence > 0 else 1.0 *)
AdjustmentFactor(adjusted_confidence, confidence) ==
  IF confidence > 0 THEN Divide(adjusted_confidence, confidence) ELSE Returned(One)

(* confidence * (0.5 + 0.5 * relevance_factor) *)
RelevanceScaled(confidence, relevance_factor) ==
  Mul(confidence, Half(Unit) + Half(relevance_factor))

(* IntentAdjusted without the cap of the reinforcement at 1.0. *)
IntentAdjusted_Uncapped(adjusted_confidence, primary_type, label) ==
  IF primary_type = "Support" /\ label = "POSITIVE"
  THEN Mul(adjusted_confidence, Tenths(12))
  ELSE IF primary_type = "Opposition" /\ label = "NEGATIVE"
  THEN Mul(adjusted_confidence, Tenths(12))
  ELSE IF primary_type \in {"Question", "Clarification"}
  THEN IF label # "NEUTRAL" THEN Mul(adjusted_confidence, Tenths(8))
       ELSE adjusted_confidence
  ELSE adjusted_confidence

(* The if/elif chain on the comment type and the label. *)
IntentAdjusted(adjusted_confidence, primary_type, label) ==
  IF primary_type = "Support" /\ label = "POSITIVE"
  THEN Min(Unit, Mul(adjusted_confidence, Tenths(12)))
  ELSE IF primary_type = "Opposition" /\ label = "NEGATIVE"
  THEN Min(Unit, Mul(adjusted_confidence, Tenths(12)))
  ELSE IF primary_type \in {"Question", "Clarification"}
  THEN IF label # "NEUTRAL" THEN Mul(adjusted_confidence, Tenths(8))
       ELSE adjusted_confidence
  ELSE adjusted_confidence

_adjust_sentiment_for_context(base_sentiment, relevance, comment_type) ==
  LET label == base_sentiment.label
      confidence == base_sentiment.score
      relevance_factor == relevance.relevance_score
      adjusted_confidence ==
        IntentAdjusted(RelevanceScaled(confidence, relevance_factor),
                       comment_type.primary_type, label)
      factor == AdjustmentFactor(adjusted_confidence, confidence)
  IN IF factor.raised THEN factor
     ELSE Returned([label |-> label, score |-> adjusted_confidence,
                    original_score |-> confidence, adjustment_factor |-> factor.value])

----------------------------------------------------------------------------
(* analyze_document_aware_sentiment and analyze_batch_document_aware *)

(* The labels the sentiment pipeline may give: those of the LABEL_n and of the
   upper-case models, and the lower-case ones of the model _load_models names. *)
RawLabels == {"LABEL_0", "LABEL_1", "LABEL_2", "POSITIVE", "NEGATIVE", "NEUTRAL", "positive"}

(* NormalizeLabel that keeps every label as the pipeline gave it. *)
NormalizeLabel_Identity(label) == label

(* The label normalization of analyze_document_aware_sentiment. *)
NormalizeLabel(label) ==
  IF label \in {"LABEL_2", "POSITIVE"} THEN "POSITIVE"
  ELSE IF label \in {"LABEL_0", "NEGATIVE"} THEN "NEGATIVE"
  ELSE IF label \in {"LABEL_1", "NEUTRAL"} THEN "NEUTRAL"
  ELSE label

(* What self.sentiment_pipeline(comment) does: it raises, or returns a label and
   a score (in units). *)
PipelineRaises == [raised |-> TRUE, label |-> "", score |-> 0]
PipelineReturns(label, score) == [raised |-> FALSE, label |-> label, score |-> score]

(* AnalysisFrom that takes a comment for relevant above a score of 0.5. *)
AnalysisFrom_RelevantAboveHalf(vec, sections, emb, comment, pipeline) ==
  IF pipeline.raised THEN Raised("PipelineError")
  ELSE LET base_sentiment == [label |-> NormalizeLabel(pipeline.label), score |-> pipeline.score]
           rel == RelevanceFrom(vec, sections, emb, comment)
           comment_type == classify_comment_type(comment)
           adjusted == _adjust_sentiment_for_context(base_sentiment, rel.value, comment_type)
       IN IF rel.raised THEN rel
          ELSE IF adjusted.raised THEN adjusted
          ELSE Returned(
            [base_sentiment |-> base_sentiment,
             adjusted_sentiment |-> adjusted.value,
             relevance |-> rel.value,
             comment_type |-> comment_type,
             document_context |->
               [is_relevant |-> rel.value.relevance_score > Tenths(5),
                target_section |->
                  IF rel.value.most_relevant_section.some
                  THEN Some(rel.value.most_relevant_section.v.title) ELSE None,
                constructive_feedback |-> comment_type.is_constructive]])

(* The call on a comment, given what the pipeline does on it and the analyzer's
   fields. *)
AnalysisFrom(vec, sections, emb, comment, pipeline) ==
  IF pipeline.raised THEN Raised("PipelineError")
  ELSE LET base_sentiment == [label |-> NormalizeLabel(pipeline.label), score |-> pipeline.score]
           rel == RelevanceFrom(vec, sections, emb, comment)
           comment_type == classify_comment_type(comment)
           adjusted == _adjust_sentiment_for_context(base_sentiment, rel.value, comment_type)
       IN IF rel.raised THEN rel
          ELSE IF adjusted.raised THEN adjusted
          ELSE Returned(
            [base_sentiment |-> base_sentiment,
             adjusted_sentiment |-> adjusted.value,
             relevance |-> rel.value,
             comment_type |-> comment_type,
             document_context |->
               [is_relevant |-> rel.value.relevance_score > Tenths(3),
                target_section |->
                  IF rel.value.most_relevant_section.some
                  THEN Some(rel.value.most_relevant_section.v.title) ELSE None,
                constructive_feedback |-> comment_type.is_constructive]])

(* BatchEntry with the enumerate index as the identifier. *)
BatchEntry_FromZero(result, i, comment) ==
  [comment_id |-> i, comment |-> comment] @@ result

(* One result of the batch loop, for enumerate index i (from 0). *)
BatchEntry(result, i, comment) ==
  [comment_id |-> i + 1, comment |-> comment] @@ result

(* BatchLoop that analyses the first comment once and gives its result to
   every comment. *)
BatchLoop_ReusesFirst(vec, sections, emb, comments, pipeline, i, results) ==
  IF comments = << >> THEN Returned(results)
  ELSE LET first == AnalysisFrom(vec, sections, emb, comments[1], pipeline[1])
       IN IF first.raised THEN first
          ELSE Returned([k \in 1..Len(comments) |->
                           BatchEntry(first.value, k - 1, comments[k])])

(* The loop of analyze_batch_document_aware from index i on: an exception of one
   comment's analysis leaves the loop and the call. *)
RECURSIVE BatchLoop(_, _, _, _, _, _, _)
BatchLoop(vec, sections, emb, comments, pipeline, i, results) ==
  IF i >= Len(comments) THEN Returned(results)
  ELSE LET result == AnalysisFrom(vec, sections, emb, comments[i + 1], pipeline[i + 1])
       IN IF result.raised THEN result
          ELSE BatchLoop(vec, sections, emb, comments, pipeline, i + 1,
                         Append(results, BatchEntry(result.value, i, comments[i + 1])))

----------------------------------------------------------------------------
(* Inputs of the sentiment pipeline and of the adjuster. *)

PipelineOutcomes == {PipelineRaises, PipelineReturns("LABEL_2", Tenths(9))}

ConfidenceGrid == {Tenths(k) : k \in {0, 5, 9, 10}}
RelevanceGrid == {Tenths(k) : k \in {0, 3, 4, 7, 10, 15}}
Labels == {"POSITIVE", "NEGATIVE", "NEUTRAL", "positive"}

----------------------------------------------------------------------------

----------------------------------------------------------------------------
(* The calls, each from start to end. *)

Idle == set_pc = "idle" /\ rel_pc = "idle"

(* __init__: the vectorizer is the one of _load_models' try block, or the one of
   its except block. *)
InitAnalyzer ==
  /\ tfidf_config \in Configs
  /\ tfidf_vectorizer = Unfitted
  /\ main_document = None
  /\ document_sections = None
  /\ document_embeddings = None
  /\ set_pc = "idle" /\ set_doc = << >>
  /\ rel_pc = "idle" /\ rel_loc = [comment |-> << >>]

Init == InitAnalyzer /\ ret = [op |-> "__init__"]

analyze_comment_relevance(comment) ==
  /\ Idle
  /\ ret' = [op |-> "analyze_comment_relevance", comment |-> comment,
             result |-> Relevance(comment)]
  /\ UNCHANGED << tfidf_config, analyzer, set_pc, set_doc, rel_pc, rel_loc >>

ClassifyCommentType(comment) ==
  /\ Idle
  /\ ret' = [op |-> "classify_comment_type", comment |-> comment,
             result |-> Returned(classify_comment_type(comment))]
  /\ UNCHANGED << tfidf_config, analyzer, set_pc, set_doc, rel_pc, rel_loc >>

analyze_document_aware_sentiment(comment, pipeline) ==
  /\ Idle
  /\ ret' = [op |-> "analyze_document_aware_sentiment", comment |-> comment,
             pipeline |-> pipeline,
             result |-> AnalysisFrom(tfidf_vectorizer, document_sections,
                                     document_embeddings, comment, pipeline)]
  /\ UNCHANGED << tfidf_config, analyzer, set_pc, set_doc, rel_pc, rel_loc >>

analyze_batch_document_aware(comments, pipeline) ==
  /\ Idle
  /\ ret' = [op |-> "analyze_batch_document_aware", comments |-> comments,
             pipeline |-> pipeline,
             result |-> BatchLoop(tfidf_vectorizer, document_sections, document_embeddings,
                                  comments, pipeline, 0, << >>)]
  /\ UNCHANGED << tfidf_config, analyzer, set_pc, set_doc, rel_pc, rel_loc >>

(* One analyzer: documents are set and comments scored, one call after another. *)
Next ==
  \/ \E doc \in SmallDocuments : set_main_document(doc)
  \/ \E comment \in Probes : analyze_comment_relevance(comment)

Spec == Init /\ [][Next]_vars

(* A session: every public call, on a few documents and comments. *)
NextSession ==
  \/ \E doc \in SessionDocuments : set_main_document(doc)
  \/ \E comment \in SessionComments : analyze_comment_relevance(comment)
  \/ \E comment \in SessionComments : ClassifyCommentType(comment)
  \/ \E comment \in BatchComments, pipeline \in PipelineOutcomes :
       analyze_document_aware_sentiment(comment, pipeline)
  \/ \E comments \in SeqsUpTo(BatchComments, MaxBatch) :
       \E pipeline \in [1..Len(comments) -> PipelineOutcomes] :
         analyze_batch_document_aware(comments, pipeline)

SpecSession == Init /\ [][NextSession]_vars

(* The relevance score: documents are set and comments of many boosts scored. *)
NextRelevance ==
  \/ \E doc \in RelevanceDocuments : set_main_document(doc)
  \/ \E comment \in RelevanceComments : analyze_comment_relevance(comment)

SpecRelevance == Init /\ [][NextRelevance]_vars

----------------------------------------------------------------------------
(* The section extractor alone: a document text is given, and extracted. *)

InitExtract ==
  /\ InitAnalyzer
  /\ \E doc \in Documents : ret = [op |-> "given", doc |-> doc]

ExtractDocumentSections ==
  /\ ret.op = "given"
  /\ ret' = [op |-> "_extract_document_sections", doc |-> ret.doc,
             result |-> Returned(_extract_document_sections(ret.doc))]
  /\ UNCHANGED << tfidf_config, analyzer, set_pc, set_doc, rel_pc, rel_loc >>

SpecExtract == InitExtract /\ [][ExtractDocumentSections]_vars

(* The section extractor on texts of sentences, among them a run of sixty
   sentences, which takes the chunk size above five; and on clauses, short and
   long. *)
InitChunks ==
  /\ InitAnalyzer
  /\ \E doc \in SeqsUpTo({Blank, Sentence, StopSentence, Sentences5, ClauseShort, ClauseLong,
                           [fams |-> {}, id |-> << >>, hchars |-> 0, chars |-> 1200,
                            words |-> 180, n |-> 60, term |-> W_director]}, MaxBlocks) :
       ret = [op |-> "given", doc |-> doc]

SpecChunks == InitChunks /\ [][ExtractDocumentSections]_vars

(* The intent classifier alone: a comment of a few words is given, and
   classified. *)
IntentComments ==
  {JoinWords(ws) : ws \in SeqsUpTo(
     {<<"a","g","r","e","e">>, <<"o","p","p","o","s","e">>, <<"e","x","p","l","a","i","n">>,
      <<"c","l","a","r","i","f","y">>, W_unclear, W_excellent,
      <<"i","m","p","l","e","m","e","n","t","a","t","i","o","n">>, W_penalty}, MaxWords)}

InitClassify ==
  /\ InitAnalyzer
  /\ \E comment \in IntentComments : ret = [op |-> "given", comment |-> comment]

ClassifyGivenComment ==
  /\ ret.op = "given"
  /\ ret' = [op |-> "classify_comment_type", comment |-> ret.comment,
             result |-> Returned(ClassifyCommentTypeOf(ret.comment))]
  /\ UNCHANGED << tfidf_config, analyzer, set_pc, set_doc, rel_pc, rel_loc >>

SpecClassify == InitClassify /\ [][ClassifyGivenComment]_vars

(* The sentiment adjuster alone: a base sentiment, a relevance score and a
   comment type are given, and adjusted. *)
InitAdjust ==
  /\ InitAnalyzer
  /\ \E label \in Labels, confidence \in ConfidenceGrid, relevance_score \in RelevanceGrid,
        primary_type \in Range(Categories) :
       ret = [op |-> "given", label |-> label, confidence |-> confidence,
              relevance_score |-> relevance_score, primary_type |-> primary_type]

AdjustSentimentForContext ==
  /\ ret.op = "given"
  /\ ret' = [ret EXCEPT !.op = "_adjust_sentiment_for_context"] @@
            [result |-> _adjust_sentiment_for_context(
                          [label |-> ret.label, score |-> ret.confidence],
                          [relevance_score |-> ret.relevance_score],
                          [primary_type |-> ret.primary_type])]
  /\ UNCHANGED << tfidf_config, analyzer, set_pc, set_doc, rel_pc, rel_loc >>

SpecAdjust == InitAdjust /\ [][AdjustSentimentForContext]_vars

----------------------------------------------------------------------------
(* Two threads on one analyzer: one in set_main_document, one in
   analyze_comment_relevance.  Nothing in either method takes a lock, so the
   threads interleave between any two reads or writes of the analyzer's fields. *)

(* set_main_document is called: self.main_document = document_text. *)
SetAssignDocument(doc) ==
  /\ set_pc = "idle"
  /\ set_doc' = doc
  /\ main_document' = Some(doc)
  /\ set_pc' = "sections"
  /\ UNCHANGED << tfidf_config, tfidf_vectorizer, document_sections, document_embeddings,
                  ret, rel_pc, rel_loc >>

(* self.document_sections = self._extract_document_sections(document_text) *)
SetAssignSections ==
  /\ set_pc = "sections"
  /\ document_sections' = Some(SectionsOf[set_doc])
  /\ set_pc' = "fit"
  /\ UNCHANGED << tfidf_config, tfidf_vectorizer, main_document, document_embeddings,
                  ret, set_doc, rel_pc, rel_loc >>

(* `if self.document_sections:` and fit_transform, which refits the vectorizer
   or raises. *)
SetFitTransform ==
  /\ set_pc = "fit"
  /\ \E keeps \in FitOutcomes(tfidf_config, tfidf_vectorizer, set_doc) :
       LET after == SetMainDocumentFrom(tfidf_config, tfidf_vectorizer,
                                        document_embeddings, set_doc, keeps)
           fitted == HasSections(SectionsOf[set_doc]) /\ ~after.raised
       IN /\ tfidf_vectorizer' = after.vec
          /\ set_pc' = IF fitted THEN "embeddings" ELSE "idle"
          /\ ret' = IF fitted THEN ret
                    ELSE [op |-> "set_main_document", doc |-> set_doc, raised |-> after.raised]
  /\ UNCHANGED << tfidf_config, main_document, document_sections, document_embeddings,
                  set_doc, rel_pc, rel_loc >>

(* self.document_embeddings = <the rows fit_transform returned>, and the return. *)
SetAssignEmbeddings ==
  /\ set_pc = "embeddings"
  /\ document_embeddings' = Some(IndexOf[tfidf_config][set_doc].rows)
  /\ set_pc' = "idle"
  /\ ret' = [op |-> "set_main_document", doc |-> set_doc, raised |-> FALSE]
  /\ UNCHANGED << tfidf_config, tfidf_vectorizer, main_document, document_sections,
                  set_doc, rel_pc, rel_loc >>

(* analyze_comment_relevance is called: the test of the early return. *)
RelCheckLoaded(comment) ==
  /\ rel_pc = "idle"
  /\ IF NoDocumentLoaded(document_embeddings, document_sections)
     THEN /\ ret' = [op |-> "analyze_comment_relevance", comment |-> comment,
                     result |-> Returned(UnknownRelevance), scored |-> FALSE]
          /\ UNCHANGED << rel_pc, rel_loc >>
     ELSE /\ rel_pc' = "transform"
          /\ rel_loc' = [comment |-> comment]
          /\ UNCHANGED ret
  /\ UNCHANGED << tfidf_config, analyzer, set_pc, set_doc >>

(* comment_embedding = self.tfidf_vectorizer.transform([comment]) *)
RelTransform ==
  /\ rel_pc = "transform"
  /\ IF tfidf_vectorizer.fitted
     THEN /\ rel_pc' = "similarities"
          /\ rel_loc' = [comment |-> rel_loc.comment, vec |-> tfidf_vectorizer]
          /\ UNCHANGED ret
     ELSE /\ rel_pc' = "idle"
          /\ rel_loc' = [comment |-> << >>]
          /\ ret' = [op |-> "analyze_comment_relevance", comment |-> rel_loc.comment,
                     result |-> Raised("NotFittedError"), scored |-> FALSE]
  /\ UNCHANGED << tfidf_config, analyzer, set_pc, set_doc >>

(* similarities = cosine_similarity(comment_embedding, self.document_embeddings)[0] *)
RelSimilarities ==
  /\ rel_pc = "similarities"
  /\ rel_pc' = "select"
  /\ rel_loc' = [comment |-> rel_loc.comment, vec |-> rel_loc.vec,
                 emb |-> document_embeddings.v]
  /\ UNCHANGED << tfidf_config, analyzer, ret, set_pc, set_doc >>

(* The boost, the argmax, self.document_sections[max_similarity_idx], and the
   return.  ret.read is what the call read of the analyzer. *)
RelSelect ==
  /\ rel_pc = "select"
  /\ rel_pc' = "idle"
  /\ rel_loc' = [comment |-> << >>]
  /\ ret' = [op |-> "analyze_comment_relevance", comment |-> rel_loc.comment,
             result |-> ScoreAgainst(rel_loc.vec, document_sections.v, rel_loc.emb,
                                     rel_loc.comment),
             scored |-> TRUE,
             read |-> [vocabulary |-> rel_loc.vec.vocabulary, emb |-> rel_loc.emb,
                       sections |-> document_sections.v]]
  /\ UNCHANGED << tfidf_config, analyzer, set_pc, set_doc >>

NextThreads ==
  \/ \E doc \in ThreadDocuments : SetAssignDocument(doc)
  \/ SetAssignSections
  \/ SetFitTransform
  \/ SetAssignEmbeddings
  \/ \E comment \in ThreadComments : RelCheckLoaded(comment)
  \/ RelTransform
  \/ RelSimilarities
  \/ RelSelect

SpecThreads == Init /\ [][NextThreads]_vars

----------------------------------------------------------------------------
(* SentimentAnalyzer (sentiment_analyzer.py), and one comment's analysis by the
   document-aware analyzer. *)

(* The label normalization of SentimentAnalyzer.analyze_sentiment. *)
NormalizedLabel(label) ==
  IF label \in {"LABEL_2", "POSITIVE"} THEN "POSITIVE"
  ELSE IF label \in {"LABEL_0", "NEGATIVE"} THEN "NEGATIVE"
  ELSE IF label \in {"LABEL_1", "NEUTRAL"} THEN "NEUTRAL"
  ELSE label

(* What TextBlob(text).sentiment does: it raises, or gives a polarity and a
   subjectivity (in units). *)
BlobRaises == [raised |-> TRUE, polarity |-> 0, subjectivity |-> 0]
BlobReturns(polarity, subjectivity) ==
  [raised |-> FALSE, polarity |-> polarity, subjectivity |-> subjectivity]

(* The result of the except branch of analyze_sentiment. *)
DegradedSentiment ==
  [label |-> "NEUTRAL", confidence |-> Unit \div 2, polarity |-> 0,
   subjectivity |-> Unit \div 2, sentiment_score |-> 0]

(* analyze_sentiment, given what the pipeline and TextBlob do on the text: the
   try block, or the except branch for an exception of either. *)
SentimentFrom(pipeline, blob) ==
  IF pipeline.raised \/ blob.raised THEN DegradedSentiment
  ELSE [label |-> NormalizedLabel(pipeline.label), confidence |-> pipeline.score,
        polarity |-> blob.polarity, subjectivity |-> blob.subjectivity,
        sentiment_score |-> blob.polarity]

(* SentimentLoop that leaves out the texts whose analysis failed. *)
RECURSIVE SentimentLoop_SkipsFailures(_, _, _, _)
SentimentLoop_SkipsFailures(pipeline, blob, i, results) ==
  IF i >= Len(pipeline) THEN results
  ELSE SentimentLoop_SkipsFailures(pipeline, blob, i + 1,
         IF pipeline[i + 1].raised \/ blob[i + 1].raised THEN results
         ELSE Append(results, SentimentFrom(pipeline[i + 1], blob[i + 1])))

(* The loop of analyze_batch_sentiments from index i on. *)
RECURSIVE SentimentLoop(_, _, _, _)
SentimentLoop(pipeline, blob, i, results) ==
  IF i >= Len(pipeline) THEN results
  ELSE SentimentLoop(pipeline, blob, i + 1,
                     Append(results, SentimentFrom(pipeline[i + 1], blob[i + 1])))

(* The pipeline on a text: an exception, or any of the labels with a score. *)
LabelOutcomes ==
  {PipelineRaises} \cup {PipelineReturns(label, score) :
                           label \in RawLabels, score \in {Unit, Tenths(9)}}

analyze_sentiment(text, pipeline, blob) ==
  /\ Idle
  /\ ret' = [op |-> "analyze_sentiment", text |-> text, pipeline |-> pipeline,
             blob |-> blob, result |-> Returned(SentimentFrom(pipeline, blob))]
  /\ UNCHANGED << tfidf_config, analyzer, set_pc, set_doc, rel_pc, rel_loc >>

analyze_batch_sentiments(texts, pipeline, blob) ==
  /\ Idle
  /\ ret' = [op |-> "analyze_batch_sentiments", texts |-> texts, pipeline |-> pipeline,
             blob |-> blob, result |-> Returned(SentimentLoop(pipeline, blob, 0, << >>))]
  /\ UNCHANGED << tfidf_config, analyzer, set_pc, set_doc, rel_pc, rel_loc >>

(* The two analyzers of a session, on single texts and on batches. *)
NextSentiment ==
  \/ \E text \in {W_excellent, W_penalty}, pipeline \in LabelOutcomes,
        blob \in {BlobRaises, BlobReturns(0, 0), BlobReturns(Tenths(5), Unit)} :
       analyze_sentiment(text, pipeline, blob)
  \/ \E texts \in SeqsUpTo({W_excellent, W_penalty}, MaxBatch) :
       \E pipeline \in [1..Len(texts) ->
                           {PipelineRaises, PipelineReturns("LABEL_0", Tenths(9))}],
          blob \in [1..Len(texts) -> {BlobRaises, BlobReturns(Tenths(5), Unit)}] :
         analyze_batch_sentiments(texts, pipeline, blob)
  \/ \E comment \in SessionComments, pipeline \in LabelOutcomes :
       analyze_document_aware_sentiment(comment, pipeline)

SpecSentiment == Init /\ [][NextSentiment]_vars

(* One comment's analysis against a document: documents are set, and comments of
   many boosts and intents analysed, with a pipeline that answers or raises. *)
NextContext ==
  \/ \E doc \in RelevanceDocuments : set_main_document(doc)
  \/ \E comment \in RelevanceComments \cup SessionComments, pipeline \in PipelineOutcomes :
       analyze_document_aware_sentiment(comment, pipeline)

SpecContext == Init /\ [][NextContext]_vars

----------------------------------------------------------------------------
(* The claims. *)

(* C1: after any sequence of set_main_document calls, those that raise in
   fit_transform included, the stored index is the index of the stored
   sections of the stored document: it has one row per section. *)
C1_IndexOfStoredSections ==
  document_embeddings.some =>
    /\ document_sections.some
    /\ Len(document_embeddings.v) = Len(document_sections.v)
    /\ ~IndexOf[tfidf_config][main_document.v].raised
    /\ document_embeddings.v = IndexOf[tfidf_config][main_document.v].rows

(* C2: before any set_main_document, analyze_comment_relevance returns score
   0.0, no section and category 'Unknown' for every comment, and does not raise. *)
C2_UnknownBeforeAnyDocument ==
  (ret.op = "analyze_comment_relevance" /\ ~main_document.some)
    => ret.result = Returned(UnknownRelevance)

(* C2's case: a comment with 'section 5', which has a keyword boost, scored
   before any document was set. *)
C2_Witness ==
  /\ ret.op = "analyze_comment_relevance"
  /\ ~main_document.some
  /\ ret.comment = C_section_5
  /\ BoostOf[ret.comment] > 0

(* C3: analyze_batch_document_aware on N comments returns exactly N results in
   input order, the i-th with comment_id = i and the i-th text as its comment. *)
C3_BatchInInputOrder ==
  (ret.op = "analyze_batch_document_aware" /\ ~ret.result.raised) =>
    /\ Len(ret.result.value) = Len(ret.comments)
    /\ \A i \in 1..Len(ret.comments) :
         /\ ret.result.value[i].comment_id = i
         /\ ret.result.value[i].comment = ret.comments[i]

(* C3's case: a returned batch of two or more comments, not all the same. *)
C3_Witness ==
  /\ ret.op = "analyze_batch_document_aware"
  /\ ~ret.result.raised
  /\ Len(ret.comments) >= 2
  /\ ret.comments[1] # ret.comments[2]
  /\ Len(ret.result.value) >= 2

(* C4: a failure on one comment does not abort the batch: the call returns, with
   one result per input comment. *)
C4_FailureDoesNotAbortBatch ==
  ret.op = "analyze_batch_document_aware" =>
    /\ ~ret.result.raised
    /\ Len(ret.result.value) = Len(ret.comments)

(* C5: for every non-empty document text, _extract_document_sections returns at
   least one section. *)
C5_NonEmptyTextHasSection ==
  (ret.op = "_extract_document_sections" /\ DocLen(ret.doc) > 0)
    => Len(ret.result.value) >= 1

(* C6: a set_main_document replaces the prior document in full: after it, every
   probe comment is scored as by an analyzer that was given this document alone. *)
C6_SetReplacesPriorDocument ==
  ret.op = "set_main_document" =>
    LET alone == SetMainDocumentFrom(tfidf_config, Unfitted, None, ret.doc, TRUE)
    IN \A probe \in Probes :
         Relevance(probe) = RelevanceFrom(alone.vec, alone.sections, alone.emb, probe)

(* C7: set_main_document on a text with no pattern match that the fallback makes
   one section of (with a word that is no stop word, and the vectorizer of
   _load_models' try block) does not raise and leaves the index built: later
   relevance queries give a category other than 'Unknown'. *)
C7_SingleFallbackSectionIsBuilt ==
  ( /\ ret.op = "set_main_document"
    /\ tfidf_config = "primary"
    /\ PatternSections(ret.doc) = << >>
    /\ Len(FallbackSections(ret.doc)) = 1
    /\ Features(FallbackSections(ret.doc)[1].content) # {} )
  => /\ ~ret.raised
     /\ \A probe \in Probes :
          /\ ~Relevance(probe).raised
          /\ Relevance(probe).value.relevance_category # "Unknown"

(* C8: empty input gives degenerate results and no exception: after
   set_main_document with empty text (which does not raise) a relevance query
   returns 0.0, no section and 'Unknown'; a batch of no comments returns the
   empty list; classify_comment_type on the empty comment returns confidence 0. *)
C8_EmptyInputDegenerates ==
  /\ (ret.op = "set_main_document" /\ ret.doc = << >>) => ~ret.raised
  /\ (ret.op = "analyze_comment_relevance" /\ main_document = Some(<< >>))
       => ret.result = Returned(UnknownRelevance)
  /\ (ret.op = "analyze_batch_document_aware" /\ ret.comments = << >>)
       => ret.result = Returned(<< >>)
  /\ (ret.op = "classify_comment_type" /\ ret.comment = << >>)
       => /\ ~ret.result.raised
          /\ ret.result.value.confidence = Zero

(* C8's case: a relevance query after the empty text replaced a document whose
   index was built. *)
C8_Witness ==
  /\ ret.op = "analyze_comment_relevance"
  /\ main_document = Some(<< >>)
  /\ document_embeddings.some
  /\ ret.comment = C_section_5

(* C9: a relevance call never reads the sections of one document together with
   the vocabulary or the index of another. *)
C9_NoTornRead ==
  (ret.op = "analyze_comment_relevance" /\ ret.scored) =>
    LET fit == FitTransform(tfidf_config, Contents(ret.read.sections))
    IN /\ ~fit.raised
       /\ fit.rows = ret.read.emb
       /\ fit.vocabulary = ret.read.vocabulary

(* C10: with base confidence 0, _adjust_sentiment_for_context does not raise and
   returns adjustment_factor 1.0 and score 0; with base confidence above 0 the
   adjustment_factor is the adjusted score divided by the original score; the
   original_score is the base confidence. *)
C10_AdjustmentFactor ==
  ret.op = "_adjust_sentiment_for_context" =>
    /\ ~ret.result.raised
    /\ ret.result.value.original_score = ret.confidence
    /\ ret.confidence = 0 =>
         /\ ret.result.value.adjustment_factor = One
         /\ ret.result.value.score = 0
    /\ ret.confidence > 0 =>
         ret.result.value.adjustment_factor
           = Ratio(ret.result.value.score, ret.result.value.original_score)

(* C10's case: a positive, supporting comment of confidence 0 and a relevance
   above 1.0, where the reinforcement branch runs. *)
C10_Witness ==
  /\ ret.op = "_adjust_sentiment_for_context"
  /\ ret.confidence = 0
  /\ ret.label = "POSITIVE"
  /\ ret.primary_type = "Support"
  /\ ret.relevance_score > Unit
(* C11: the label normalization maps LABEL_2 and POSITIVE to POSITIVE, LABEL_0
   and NEGATIVE to NEGATIVE, LABEL_1 and NEUTRAL to NEUTRAL; in
   analyze_document_aware_sentiment the adjustment is computed from the
   normalized label; analyze_sentiment uses the same mapping; and normalizing a
   normalized label changes nothing. *)
C11_LabelNormalization ==
  LET mapping == [LABEL_2 |-> "POSITIVE", POSITIVE |-> "POSITIVE",
                  LABEL_0 |-> "NEGATIVE", NEGATIVE |-> "NEGATIVE",
                  LABEL_1 |-> "NEUTRAL", NEUTRAL |-> "NEUTRAL"]
  IN /\ (ret.op = "analyze_document_aware_sentiment" /\ ~ret.result.raised
           /\ ret.pipeline.label \in DOMAIN mapping) =>
          LET label == mapping[ret.pipeline.label]
              value == ret.result.value
          IN /\ value.base_sentiment.label = label
             /\ value.adjusted_sentiment.label = label
             /\ value.adjusted_sentiment
                  = _adjust_sentiment_for_context(
                      [label |-> label, score |-> ret.pipeline.score],
                      value.relevance, value.comment_type).value
     /\ (ret.op = "analyze_sentiment" /\ ~ret.pipeline.raised /\ ~ret.blob.raised
           /\ ret.pipeline.label \in DOMAIN mapping) =>
          ret.result.value.label = mapping[ret.pipeline.label]
     /\ \A label \in RawLabels :
          /\ NormalizeLabel(label) = NormalizedLabel(label)
          /\ NormalizeLabel(NormalizeLabel(label)) = NormalizeLabel(label)
          /\ NormalizedLabel(NormalizedLabel(label)) = NormalizedLabel(label)

(* C11's case: the pipeline says LABEL_2 on a supporting comment, and the
   reinforcement of positive support has raised the adjusted score. *)
C11_Witness ==
  /\ ret.op = "analyze_document_aware_sentiment"
  /\ ~ret.result.raised
  /\ ret.pipeline.label = "LABEL_2"
  /\ ret.result.value.comment_type.primary_type = "Support"
  /\ ret.result.value.comment_type.confidence = One
  /\ ret.result.value.adjusted_sentiment.score
       > RelevanceScaled(ret.pipeline.score, ret.result.value.relevance.relevance_score)

(* C12: when the pipeline raises on a text, analyze_sentiment returns the
   default (NEUTRAL, confidence 0.5, polarity 0.0, subjectivity 0.5,
   sentiment_score 0.0) and does not raise; analyze_batch_sentiments returns one
   result per text, the i-th for the i-th text, whichever calls fail. *)
C12_DegradedDefault ==
  LET default == [label |-> "NEUTRAL", confidence |-> Tenths(5), polarity |-> 0,
                  subjectivity |-> Tenths(5), sentiment_score |-> 0]
  IN /\ (ret.op = "analyze_sentiment" /\ ret.pipeline.raised) =>
          ret.result = Returned(default)
     /\ ret.op = "analyze_batch_sentiments" =>
          /\ ~ret.result.raised
          /\ Len(ret.result.value) = Len(ret.texts)
          /\ \A i \in 1..Len(ret.texts) :
               IF ret.pipeline[i].raised
               THEN ret.result.value[i] = default
               ELSE ret.blob[i].raised
                    \/ ret.result.value[i].confidence = ret.pipeline[i].score

(* C12's case: a batch of two texts where the pipeline raises on the first and
   not on the second. *)
C12_Witness ==
  /\ ret.op = "analyze_batch_sentiments"
  /\ Len(ret.texts) = 2
  /\ ret.pipeline[1].raised
  /\ ~ret.pipeline[2].raised /\ ~ret.blob[2].raised
  /\ ret.result.value[2].label = "NEGATIVE"

(* C13: with a document loaded whose index was built from it, a comment with
   two or more of the listed keywords and a 'section <number>' is scored above
   0.3 and categorized 'Somewhat Relevant' or higher, whatever its cosine
   similarity; so is the comment about the penalty under section 5. *)
C13_KeywordsAndSectionNumber ==
  LET built == /\ document_embeddings.some /\ main_document.some
               /\ ~IndexOf[tfidf_config][main_document.v].raised
               /\ document_embeddings.v = IndexOf[tfidf_config][main_document.v].rows
      comment_lower == Lower(ret.comment)
      hits == {i \in 1..Len(legal_keywords) : Contains(comment_lower, legal_keywords[i])}
  IN ( /\ ret.op = "analyze_comment_relevance"
       /\ built
       /\ Cardinality(hits) >= 2
       /\ SectionMatches(comment_lower) # {} )
     => /\ ~ret.result.raised
        /\ ret.result.value.relevance_score > Tenths(3)
        /\ ret.result.value.relevance_category
             \in {"Somewhat Relevant", "Moderately Relevant", "Highly Relevant"}

(* C13's case: the comment about the penalty under section 5, scored against a
   document of two sections of which the first says 'penalty'. *)
C13_Witness ==
  /\ ret.op = "analyze_comment_relevance"
  /\ ret.comment = C_worried
  /\ main_document = Some(<<Sentence, Sentences5>>)
  /\ document_embeddings.some
  /\ Len(document_sections.v) = 2
  /\ Len(document_embeddings.v) = 2
  /\ ~ret.result.raised
  /\ ret.result.value.most_relevant_section.v = document_sections.v[1]

(* C14: the analysing calls leave the analyzer's vectorizer, document, sections
   and index as they were, and every entry of a returned batch is, apart from
   its comment_id and comment, the result of analysing that comment alone. *)
C14_NoCrossCommentState ==
  /\ [][ret'.op \in {"analyze_comment_relevance", "classify_comment_type",
                     "analyze_document_aware_sentiment", "analyze_batch_document_aware"}
          => UNCHANGED analyzer]_vars
  /\ []((ret.op = "analyze_batch_document_aware" /\ ~ret.result.raised) =>
          \A i \in 1..Len(ret.comments) :
            LET entry == ret.result.value[i]
                alone == AnalysisFrom(tfidf_vectorizer, document_sections,
                                      document_embeddings, ret.comments[i], ret.pipeline[i])
            IN /\ i <= Len(ret.result.value)
               /\ ~alone.raised
               /\ [k \in DOMAIN entry \ {"comment_id", "comment"} |-> entry[k]] = alone.value
               /\ entry.comment = ret.comments[i])

(* C14's case: a returned batch of two different comments on an analyzer with a
   built index. *)
C14_Witness ==
  /\ ret.op = "analyze_batch_document_aware"
  /\ ~ret.result.raised
  /\ Len(ret.comments) = 2
  /\ ret.comments[1] # ret.comments[2]
  /\ document_embeddings.some
  /\ ret.result.value[1].relevance.relevance_category # "Unknown"
  /\ ret.result.value[1].relevance # ret.result.value[2].relevance

(* C15: with a document loaded, the relevance_score is the greatest, over the
   rows of the index, of cosine similarity plus keyword boost, with no clamping:
   a comment with eleven or more listed keywords, or six or more section
   numbers, is scored above 1.0. *)
C15_ScoreIsNotClamped ==
  ( /\ ret.op = "analyze_comment_relevance"
    /\ ~ret.result.raised
    /\ ret.result.value.relevance_category # "Unknown" )
  => LET comment_lower == Lower(ret.comment)
         k == Cardinality({i \in 1..Len(legal_keywords) :
                             Contains(comment_lower, legal_keywords[i])})
         n == Cardinality(SectionMatches(comment_lower))
         boosted == {Cosine(Transform(tfidf_vectorizer, ret.comment), document_embeddings.v[i])
                       + DoubleSum(k, n) : i \in 1..Len(document_embeddings.v)}
     IN /\ ret.result.value.relevance_score \in boosted
        /\ \A s \in boosted : s <= ret.result.value.relevance_score
        /\ (k >= 11 \/ n >= 6) => ret.result.value.relevance_score > Unit

(* C15's case: a comment whose keyword in the vocabulary gives a cosine
   similarity above 0 and whose boost alone is above 1.0. *)
C15_Witness ==
  /\ ret.op = "analyze_comment_relevance"
  /\ ret.comment = C_keywords_11
  /\ ~ret.result.raised
  /\ ret.result.value.relevance_score > Unit
  /\ ret.result.value.relevance_score > BoostOf[C_keywords_11]

(* C16: with an index and at least one section stored, the category is never
   'Unknown' and follows the score by strict thresholds: above 0.7 'Highly
   Relevant', else above 0.5 'Moderately Relevant', else above 0.3 'Somewhat
   Relevant', else 'Low Relevance'; a score equal to a threshold is below it. *)
C16_StrictThresholds ==
  ( /\ ret.op = "analyze_comment_relevance"
    /\ ~ret.result.raised
    /\ document_embeddings.some
    /\ document_sections.some /\ document_sections.v # << >> )
  => LET score == ret.result.value.relevance_score
         category == ret.result.value.relevance_category
     IN /\ category # "Unknown"
        /\ score > 700 => category = "Highly Relevant"
        /\ (score > 500 /\ score <= 700) => category = "Moderately Relevant"
        /\ (score > 300 /\ score <= 500) => category = "Somewhat Relevant"
        /\ score <= 300 => category = "Low Relevance"

(* C16's case: five keywords and no similarity give the score 0.5, the bound of
   'Moderately Relevant', and the category below it. *)
C16_Witness ==
  /\ ret.op = "analyze_comment_relevance"
  /\ ret.comment = C_keywords_5
  /\ ~ret.result.raised
  /\ ret.result.value.relevance_score = Tenths(5)
  /\ ret.result.value.relevance_category = "Somewhat Relevant"

(* C17: the section analyze_comment_relevance returns is one of the stored
   sections, its own boosted score (the cosine similarity of the comment with
   this section's content, plus the boost) is the highest of the stored
   sections', and no stored section before it has that score. *)
C17_FirstBestSection ==
  ( /\ ret.op = "analyze_comment_relevance"
    /\ ~ret.result.raised
    /\ ret.result.value.most_relevant_section.some )
  => LET sections == document_sections.v
         own(i) == Cosine(Transform(tfidf_vectorizer, ret.comment),
                          Features(sections[i].content) \cap tfidf_vectorizer.vocabulary)
                     + BoostOf[ret.comment]
     IN \E i \in 1..Len(sections) :
          /\ ret.result.value.most_relevant_section.v = sections[i]
          /\ \A j \in 1..Len(sections) : own(j) <= own(i)
          /\ \A j \in 1..(i - 1) : own(j) < own(i)
          /\ ret.result.value.relevance_score = own(i)

(* C18: the primary_type is the first category, in the order Support,
   Opposition, Suggestion, Question, Clarification, Implementation, whose raw
   score is the highest of the six; a comment with no keyword is Support. *)
C18_PrimaryIsFirstMaximum ==
  ret.op = "classify_comment_type" =>
    LET order == <<"Support", "Opposition", "Suggestion", "Question", "Clarification",
                   "Implementation">>
        scores == ret.result.value.all_scores
    IN /\ ~ret.result.raised
       /\ DOMAIN scores = {order[k] : k \in 1..6}
       /\ \E k \in 1..6 :
            /\ ret.result.value.primary_type = order[k]
            /\ \A j \in 1..6 : scores[order[j]] <= scores[order[k]]
            /\ \A j \in 1..(k - 1) : scores[order[j]] < scores[order[k]]
       /\ (\A j \in 1..6 : scores[order[j]] = 0) => ret.result.value.primary_type = "Support"

(* C18's case: 'explain' counts once for Question and once for Clarification,
   and the earlier of the two is the primary type. *)
C18_Witness ==
  /\ ret.op = "classify_comment_type"
  /\ ret.result.value.primary_type = "Question"
  /\ ret.result.value.all_scores["Clarification"] = ret.result.value.all_scores["Question"]
  /\ ret.result.value.all_scores["Support"] < ret.result.value.all_scores["Question"]

(* C19: the confidence is the primary category's raw score divided by the sum
   of the six raw scores, and 0 when that sum is 0; with a keyword matched it is
   from 1/6 to 1. *)
C19_ConfidenceIsShare ==
  ret.op = "classify_comment_type" =>
    LET scores == ret.result.value.all_scores
        total == scores["Support"] + scores["Opposition"] + scores["Suggestion"]
                   + scores["Question"] + scores["Clarification"] + scores["Implementation"]
        primary == scores[ret.result.value.primary_type]
        confidence == ret.result.value.confidence
    IN /\ ~ret.result.raised
       /\ confidence.den > 0
       /\ confidence.num * total = primary * confidence.den
       /\ total = 0 => confidence.num = 0
       /\ total > 0 => /\ 6 * confidence.num >= confidence.den
                       /\ confidence.num <= confidence.den

(* C19's case: three categories with one keyword each, and confidence 1/3. *)
C19_Witness ==
  /\ ret.op = "classify_comment_type"
  /\ ret.result.value.all_scores["Support"] = 1
  /\ ret.result.value.all_scores["Question"] = 1
  /\ ret.result.value.all_scores["Clarification"] = 1
  /\ ret.result.value.confidence = [num |-> 1, den |-> 3]

(* C20: every section _extract_document_sections returns has a stripped content
   of at least 50 characters, unless it is a fallback section Part_<n>, and
   then all sections of the result are fallback sections. *)
C20_PatternSectionsAreSubstantial ==
  (ret.op = "_extract_document_sections" /\ ~ret.result.raised) =>
    LET sections == ret.result.value
        artificial(s) == Len(s.id) > 5 /\ SubSeq(s.id, 1, 5) = <<"P","a","r","t","_">>
    IN \/ \A i \in 1..Len(sections) : artificial(sections[i])
       \/ \A i \in 1..Len(sections) :
            /\ ~artificial(sections[i])
            /\ CharLen(sections[i].content) >= 50
            /\ sections[i].content = Strip(sections[i].content)

(* C20's case: a clause of 10 characters followed by a clause of 60: the short
   one is left out and the long one returned. *)
C20_Witness ==
  /\ ret.op = "_extract_document_sections"
  /\ ret.doc = <<ClauseShort, ClauseLong>>
  /\ Len(ret.result.value) = 1
  /\ ret.result.value[1].id = ClauseLong.id

(* C21: the sections _extract_document_sections returns are in the order in
   which they start in the document text: the result can be matched with
   starting places in the text that never go back. *)
C21_SectionsInDocumentOrder ==
  (ret.op = "_extract_document_sections" /\ ~ret.result.raised
     /\ PatternSections(ret.doc) # << >>) =>
    LET doc == ret.doc
        sections == ret.result.value
        starts(s) == {p \in 1..Len(doc) :
                        /\ doc[p].id = s.id
                        /\ \E f \in doc[p].fams : s.content = Group2(f, doc, p)}
    IN \E pos \in [1..Len(sections) -> 1..Len(doc)] :
         /\ \A i \in 1..Len(sections) : pos[i] \in starts(sections[i])
         /\ \A i \in 1..Len(sections) : \A j \in i..Len(sections) : pos[i] <= pos[j]

(* C22: the adjusted score is base = confidence * (0.5 + 0.5 * relevance_score),
   times 1.2 and capped at 1.0 for positive support and negative opposition,
   else times 0.8 for a question or clarification whose label is not NEUTRAL,
   else base; the label is the base label; with no intent rule applying,
   relevance 0 keeps half the confidence and relevance 1 all of it. *)
C22_AdjustedScore ==
  ret.op = "_adjust_sentiment_for_context" =>
    LET base == (ret.confidence * (500 + (ret.relevance_score \div 2))) \div 1000
        reinforce == \/ ret.primary_type = "Support" /\ ret.label = "POSITIVE"
                     \/ ret.primary_type = "Opposition" /\ ret.label = "NEGATIVE"
        dampen == /\ ~reinforce
                  /\ ret.primary_type \in {"Question", "Clarification"}
                  /\ ret.label # "NEUTRAL"
        expected == IF reinforce
                    THEN (IF (base * 12) \div 10 > 1000 THEN 1000 ELSE (base * 12) \div 10)
                    ELSE IF dampen THEN (base * 8) \div 10
                    ELSE base
    IN /\ ~ret.result.raised
       /\ ret.result.value.score = expected
       /\ ret.result.value.label = ret.label
       /\ (~reinforce /\ ~dampen /\ ret.relevance_score = 0)
            => 2 * ret.result.value.score = ret.confidence
       /\ (~reinforce /\ ~dampen /\ ret.relevance_score = 1000)
            => ret.result.value.score = ret.confidence

(* C22's case: negative opposition of confidence 0.9 and relevance 1.0, which the
   reinforcement would take to 1.08 and the cap holds at 1.0. *)
C22_Witness ==
  /\ ret.op = "_adjust_sentiment_for_context"
  /\ ret.primary_type = "Opposition"
  /\ ret.label = "NEGATIVE"
  /\ ret.confidence = Tenths(9)
  /\ ret.relevance_score = Unit
  /\ ret.result.value.score = Unit

(* C23: the keyword boost is 0.10 times the number of listed keywords that occur
   in the lower-cased comment plus 0.20 times the number of 'section <number>'
   occurrences; with one such occurrence it is at least 0.30; the part from the
   keyword list is never above 1.90. *)
C23_BoostIsTenthsOfCounts ==
  ( /\ ret.op = "analyze_comment_relevance"
    /\ ~ret.result.raised
    /\ ret.result.value.relevance_category # "Unknown" )
  => LET comment_lower == Lower(ret.comment)
         k == Cardinality({w \in Range(legal_keywords) : Contains(comment_lower, w)})
         n == Cardinality(SectionMatches(comment_lower))
         boost(i) == ret.result.value.all_similarities[i]
                       - Cosine(Transform(tfidf_vectorizer, ret.comment),
                                document_embeddings.v[i])
     IN \A i \in 1..Len(ret.result.value.all_similarities) :
          /\ boost(i) = 100 * k + 200 * n
          /\ n >= 1 => boost(i) >= 300
          /\ boost(i) - 200 * n <= 1900

(* C24: for each of the six categories the raw score in all_scores is the number
   of distinct keywords of the category that occur in the lower-cased comment: a
   keyword counts once, however it is listed and however often it occurs. *)
C24_ScoreCountsDistinctKeywords ==
  ret.op = "classify_comment_type" =>
    /\ ~ret.result.raised
    /\ \A category \in Range(Categories) :
         ret.result.value.all_scores[category]
           = Cardinality({keyword \in Range(classifications(category)) :
                            Contains(Lower(ret.comment), keyword)})

(* C25: the fallback runs only when the patterns give no section; with n
   sentences its chunk size is max(5, n div 10); its sections are Part_1,
   Part_2, ... in order; their sentences, one chunk after the other, are the
   sentences of the text in their order; every chunk but the last has chunk-size
   sentences, the last from 1 to chunk-size, and none is empty. *)
C25_FallbackChunksPartition ==
  (ret.op = "_extract_document_sections" /\ ~ret.result.raised) =>
    LET sections == ret.result.value
        sentences == sent_tokenize(ret.doc)
        n == Len(sentences)
        size == IF n \div 10 > 5 THEN n \div 10 ELSE 5
        artificial(s) == Len(s.id) > 5 /\ SubSeq(s.id, 1, 5) = <<"P","a","r","t","_">>
        chunk(k) == SelectSeq(sections[k].content, LAMBDA piece : piece.term # << >>)
        last == Len(sections)
    IN /\ (\E k \in 1..last : artificial(sections[k])) => PatternSections(ret.doc) = << >>
       /\ PatternSections(ret.doc) = << >> =>
            /\ \A k \in 1..last : sections[k].id = <<"P","a","r","t","_">> \o Str(k)
            /\ Flatten([k \in 1..last |-> chunk(k)]) = sentences
            /\ \A k \in 1..(last - 1) : Len(chunk(k)) = size
            /\ last >= 1 => Len(chunk(last)) \in 1..size
            /\ \A k \in 1..last : Len(sections[k].content) > 0

(* C25's case: a text of more than sixty sentences, not all alike, and no
   pattern section: the chunk size is above five and the last chunk is short. *)
C25_Witness ==
  /\ ret.op = "_extract_document_sections"
  /\ PatternSections(ret.doc) = << >>
  /\ Len(sent_tokenize(ret.doc)) = 62
  /\ ret.doc[1] = Sentence
  /\ ret.doc[3] = StopSentence
  /\ Len(ret.result.value) = 11
  /\ Len(ret.result.value[1].content) = 11
  /\ Len(ret.result.value[11].content) = 3

(* C26: for the empty document text _extract_document_sections takes the
   fallback path and returns exactly one section, an artificial one, whose
   content is empty. *)
C26_EmptyTextGivesOneEmptySection ==
  (ret.op = "_extract_document_sections" /\ ret.doc = << >>) =>
    /\ ~ret.result.raised
    /\ Len(ret.result.value) = 1
    /\ ret.result.value[1].id = <<"P","a","r","t","_","1">>
    /\ CharLen(ret.result.value[1].content) = 0

(* C27: for a base confidence in [0,1], whatever the relevance score, the intent
   and the label, the adjusted score _adjust_sentiment_for_context returns is in
   [0,1]. *)
C27_AdjustedScoreIsAConfidence ==
  (ret.op = "_adjust_sentiment_for_context" /\ ret.confidence \in 0..Unit) =>
    /\ ~ret.result.raised
    /\ ret.result.value.score >= 0
    /\ ret.result.value.score <= Unit

(* C28: whatever label the sentiment pipeline returns, the label of
   base_sentiment and of adjusted_sentiment in every result of
   analyze_document_aware_sentiment, and the label analyze_sentiment returns, is
   POSITIVE, NEGATIVE or NEUTRAL. *)
C28_LabelIsOneOfThree ==
  /\ (ret.op = "analyze_document_aware_sentiment" /\ ~ret.result.raised) =>
       /\ ret.result.value.base_sentiment.label \in {"POSITIVE", "NEGATIVE", "NEUTRAL"}
       /\ ret.result.value.adjusted_sentiment.label \in {"POSITIVE", "NEGATIVE", "NEUTRAL"}
  /\ ret.op = "analyze_sentiment" =>
       ret.result.value.label \in {"POSITIVE", "NEGATIVE", "NEUTRAL"}

(* C29: the boost is one amount added to the similarity of every section, so it
   does not change the selection: the section returned is the first one whose
   raw cosine similarity is the highest, all_similarities is ordered as the raw
   similarities are, and relevance_score is the highest raw similarity plus the
   boost. *)
C29_BoostKeepsSelection ==
  ( /\ ret.op = "analyze_comment_relevance"
    /\ ~ret.result.raised
    /\ ret.result.value.relevance_category # "Unknown" )
  => LET rows == document_embeddings.v
         raw == [i \in 1..Len(rows) |->
                   Cosine(Transform(tfidf_vectorizer, ret.comment), rows[i])]
         all == ret.result.value.all_similarities
         best == CHOOSE i \in 1..Len(rows) :
                   /\ \A j \in 1..Len(rows) : raw[j] <= raw[i]
                   /\ \A j \in 1..(i - 1) : raw[j] < raw[i]
         comment_lower == Lower(ret.comment)
         k == Cardinality({w \in Range(legal_keywords) : Contains(comment_lower, w)})
         n == Cardinality(SectionMatches(comment_lower))
     IN /\ Len(all) = Len(rows)
        /\ ret.result.value.most_relevant_section = Some(document_sections.v[best])
        /\ \A i \in 1..Len(rows) : \A j \in 1..Len(rows) :
             /\ (all[i] < all[j]) <=> (raw[i] < raw[j])
             /\ all[i] - raw[i] = all[j] - raw[j]
        /\ ret.result.value.relevance_score = raw[best] + DoubleSum(k, n)

(* C29's case: a comment with a boost, scored against sections of which a later
   one has the highest raw similarity, and that one is returned. *)
C29_Witness ==
  /\ ret.op = "analyze_comment_relevance"
  /\ ~ret.result.raised
  /\ ret.result.value.relevance_category # "Unknown"
  /\ BoostOf[ret.comment] > 0
  /\ Len(document_sections.v) >= 2
  /\ Len(ret.result.value.all_similarities) = Len(document_sections.v)
  /\ ret.result.value.all_similarities[1] < ret.result.value.relevance_score
  /\ ret.result.value.all_similarities[1] = BoostOf[ret.comment]
  /\ ret.result.value.most_relevant_section = Some(document_sections.v[2])

(* C30: in every result of analyze_document_aware_sentiment, is_relevant is true
   exactly when relevance_score is above 0.3, which is exactly when the category
   is 'Somewhat Relevant', 'Moderately Relevant' or 'Highly Relevant';
   target_section is None exactly when the category is 'Unknown' and is otherwise
   the title of the matched section; constructive_feedback is true exactly when
   the primary intent is Suggestion, Question or Clarification. *)
C30_ContextAgreesWithFields ==
  (ret.op = "analyze_document_aware_sentiment" /\ ~ret.result.raised) =>
    LET value == ret.result.value
        context == value.document_context
        category == value.relevance.relevance_category
    IN /\ context.is_relevant <=> value.relevance.relevance_score > 300
       /\ context.is_relevant
            <=> category \in {"Somewhat Relevant", "Moderately Relevant", "Highly Relevant"}
       /\ (~context.target_section.some) <=> category = "Unknown"
       /\ category # "Unknown" =>
            /\ value.relevance.most_relevant_section.some
            /\ context.target_section.v = value.relevance.most_relevant_section.v.title
       /\ context.constructive_feedback
            <=> value.comment_type.primary_type \in {"Suggestion", "Question", "Clarification"}

(* C30's case: the question 'unclear Section 5' against a loaded document: it is
   relevant by its boost alone, has a target section, and is constructive. *)
C30_Witness ==
  /\ ret.op = "analyze_document_aware_sentiment"
  /\ ~ret.result.raised
  /\ ret.comment = JoinWords(<<W_unclear, W_section, W_5>>)
  /\ ret.result.value.relevance.relevance_category = "Somewhat Relevant"
  /\ ret.result.value.document_context.is_relevant
  /\ ret.result.value.document_context.target_section.some
  /\ ret.result.value.document_context.constructive_feedback
====
